---- MODULE Spec2Model ----
(***************************************************************************)
(* DCF Monte Carlo valuation script (src/DCF3.py), lines 2-137.            *)
(*                                                                         *)
(* Python floats are modelled as fixed-point integers with SCALE units per *)
(* 1.0 (0.005 is 5, 425.0 is 425000).  Products and quotients round        *)
(* towards minus infinity.  The script is a straight-line program; pc is   *)
(* its position.  The draws of np.random come from the process-global      *)
(* generator, which the script never seeds: each draw is a nondeterministic*)
(* choice from a small set of values the distribution can produce.         *)
(***************************************************************************)
EXTENDS Integers, Sequences, FiniteSets, TLC

VARIABLES
    inputs,          \* the widget values read at lines 12-25 and 36-43
    simulations,     \* line 46
    pc,              \* position in the script
    error,           \* the exception that ended the script, or "none"
    i,               \* iterations completed (loop variable of line 51)
    y,               \* loop variable of line 70
    draw,            \* g, m, r_f, er_p, beta_u, t_growth of lines 52-57
    beta_adj,        \* line 60
    wacc,            \* line 65
    fcf_projection,  \* lines 68, 71
    total,           \* lines 69, 72
    spread,          \* line 74
    terminal_pv,     \* line 76
    values,          \* line 47
    wacc_values,     \* line 48
    beta_values,     \* line 49
    stats,           \* lines 83-90
    run,             \* number of the current execution of the script
    prev             \* the result sequences of the previous execution

vars == <<inputs, simulations, pc, error, i, y, draw, beta_adj, wacc,
          fcf_projection, total, spread, terminal_pv, values, wacc_values,
          beta_values, stats, run, prev>>

(***************************************************************************)
(* Bounds of the model.                                                    *)
(***************************************************************************)
\* Largest simulation count explored (the script sets 10000).
MaxSimulations == 2

\* Longest ensemble handed to the summary statistics in SpecSummary.
MaxLen == 4

\* Executions of the script in SpecRerun.
MaxRuns == 2

(***************************************************************************)
(* Fixed-point arithmetic standing for Python float arithmetic.            *)
(***************************************************************************)
SCALE == 1000

Mul(a, b) == (a * b) \div SCALE

\* floor(a * SCALE / b) for b > 0, computed without forming a * SCALE
DivPos(a, b) == (a \div b) * SCALE + ((a % b) * SCALE) \div b

\* a / b, b # 0
Div(a, b) == IF b > 0 THEN DivPos(a, b) ELSE DivPos(-a, -b)

\* b ** n for an integer n >= 0
RECURSIVE Pow(_, _)
Pow(b, n) == IF n = 0 THEN SCALE ELSE Mul(Pow(b, n - 1), b)

Max(a, b) == IF b > a THEN b ELSE a


(***************************************************************************)
(* Inputs: the widget values.  Base holds the script's defaults (the       *)
(* projection horizon shortened); every other record changes the fields    *)
(* named, within what the widget accepts.  number_input has no minimum or  *)
(* maximum, the sliders have the ranges of lines 24 and 36-43.             *)
(***************************************************************************)
Base ==
    [initial_fcf |-> 425000, market_price |-> 540730, revenue |-> 2700,
     de_ratio |-> 18, shares |-> 76670, rd |-> 40, net_cash |-> 255220,
     tc |-> 150, years |-> 2, baseline_margin |-> 80, growth |-> 200,
     rf |-> 42, erp |-> 41, unlevered_beta |-> 1000, term_growth |-> 40,
     margin_min |-> 80, margin_max |-> 120]

InputSet ==
    { Base,
      [Base EXCEPT !.rf = 20, !.erp = 20, !.unlevered_beta = 600, !.years = 1],
      [Base EXCEPT !.initial_fcf = -425000, !.net_cash = -255220],
      [Base EXCEPT !.initial_fcf = 0, !.years = 1],
      [Base EXCEPT !.shares = 0],
      [Base EXCEPT !.shares = -76670],
      [Base EXCEPT !.revenue = 0],
      [Base EXCEPT !.revenue = -2700, !.initial_fcf = -425000],
      [Base EXCEPT !.de_ratio = -1000],
      [Base EXCEPT !.baseline_margin = 0],
      [Base EXCEPT !.term_growth = 10],
      [Base EXCEPT !.term_growth = 60],
      [Base EXCEPT !.margin_min = 100, !.margin_max = 100],
      [Base EXCEPT !.margin_min = 150, !.margin_max = 100] }

\* Net cash positions compared by the sensitivity of the value to net cash.
NetCashSet == {-255220, 0, 255220, 255221}

(***************************************************************************)
(* Sampling (lines 52-57).                                                 *)
(***************************************************************************)
\* Standard scores of the normal draws explored.
ZScores == {-1, 1}

\* np.random.normal(mean, sd): any real; the model takes mean + z * sd.
NormalDraws(mean, sd, zs) == { mean + z * sd : z \in zs }

\* np.random.triangular(left, mode, right) raises ValueError unless
\* left <= mode <= right and left < right.
TriangularOk(left, mode, right) ==
    /\ left <= mode
    /\ mode <= right
    /\ left # right

\* np.random.triangular returns a value of [left, right]; the model takes
\* the two ends.
TriangularDraws(left, mode, right) == {left, right}

MarginMode(inp) == (inp.margin_min + inp.margin_max) \div 2

NoDraw == [g |-> 0, m |-> 0, r_f |-> 0, er_p |-> 0, beta_u |-> 0, t_growth |-> 0]

DrawSet(inp) ==
    { [g |-> g, m |-> m, r_f |-> r_f, er_p |-> er_p, beta_u |-> beta_u,
       t_growth |-> t_growth] :
        g \in NormalDraws(inp.growth, 60, ZScores),
        m \in TriangularDraws(inp.margin_min, MarginMode(inp), inp.margin_max),
        r_f \in NormalDraws(inp.rf, 2, ZScores),
        er_p \in NormalDraws(inp.erp, 5, ZScores),
        beta_u \in NormalDraws(inp.unlevered_beta, 100, ZScores),
        t_growth \in TriangularDraws(30, inp.term_growth, 45) }

(***************************************************************************)
(* Per-iteration arithmetic (lines 59-80).                                 *)
(***************************************************************************)
BetaL(inp, beta_u) == Mul(beta_u, SCALE + Mul(SCALE - inp.tc, inp.de_ratio))

BetaAdj(inp, beta_u) == Mul(670, BetaL(inp, beta_u)) + Mul(330, SCALE)

DebtRatio(inp) == Div(inp.de_ratio, SCALE + inp.de_ratio)

Wacc(inp, r_f, er_p, b_adj) ==
    LET debt_ratio == DebtRatio(inp)
        equity_ratio == SCALE - debt_ratio
        re_cost == r_f + Mul(b_adj, er_p)
    IN  Mul(equity_ratio, re_cost) + Mul(Mul(debt_ratio, inp.rd), SCALE - inp.tc)

\* (1 + g) * (1 + (m - baseline_margin) / baseline_margin * 0.1)
GrowthFactor(inp, g, m) ==
    Mul(SCALE + g,
        SCALE + Mul(Div(m - inp.baseline_margin, inp.baseline_margin), 100))

SpreadNoFloor(w, t_growth) == w - t_growth

Spread(w, t_growth) == Max(w - t_growth, 5)

TerminalValue(fcf, t_growth, sp) == Div(Mul(fcf, SCALE + t_growth), sp)

EquityValMinusCash(tot, tpv, net_cash) == tot + tpv - net_cash

EquityVal(tot, tpv, net_cash) == tot + tpv + net_cash

IntrinsicVal(equity_val, shares) == Div(equity_val, shares)

\* The value fcf_projection starts an iteration with (line 68).
FcfCarriedOver == fcf_projection

FcfAtIterationStart == inputs.initial_fcf

\* range(simulations) is exhausted after n iterations.
LoopDoneOffByOne(n) == n + 1 >= simulations

LoopDone(n) == n >= simulations

(***************************************************************************)
(* Summary statistics (lines 83-90).                                       *)
(***************************************************************************)
Sorted(seq) == SortSeq(seq, LAMBDA a, b : a < b)

RECURSIVE Sum(_)
Sum(seq) == IF seq = << >> THEN 0 ELSE Head(seq) + Sum(Tail(seq))

\* np.mean
Mean(seq) == Div(Sum(seq), Len(seq) * SCALE)

\* np.median: the middle entry, or the mean of the two middle entries
Median(seq) ==
    LET s == Sorted(seq)
        n == Len(seq)
    IN  IF n % 2 = 1 THEN s[(n + 1) \div 2]
        ELSE Div(s[n \div 2] + s[n \div 2 + 1], 2 * SCALE)

\* np.percentile(seq, q), linear interpolation; q01 is q / 100
Percentile(seq, q01) ==
    LET s == Sorted(seq)
        n == Len(seq)
        index == q01 * (n - 1)
        lo == index \div SCALE
        gamma == index % SCALE
        hi == IF lo + 1 < n THEN lo + 1 ELSE lo
    IN  s[lo + 1] + Mul(s[hi + 1] - s[lo + 1], gamma)

\* np.array(values) > market_price, True as 1.0 and False as 0.0
AtOrAboveMarket(seq, market_price) ==
    [k \in 1..Len(seq) |-> IF seq[k] >= market_price THEN SCALE ELSE 0]

AboveMarket(seq, market_price) ==
    [k \in 1..Len(seq) |-> IF seq[k] > market_price THEN SCALE ELSE 0]

\* np.percentile(seq, [2.5, 97.5])
Ci95Swapped(seq) == <<Percentile(seq, 975), Percentile(seq, 25)>>

Ci95(seq) == <<Percentile(seq, 25), Percentile(seq, 975)>>

NoStats ==
    [mean_value |-> 0, median_value |-> 0, ci_95 |-> <<0, 0>>,
     mean_wacc |-> 0, ci_wacc_95 |-> <<0, 0>>,
     mean_beta |-> 0, ci_beta_95 |-> <<0, 0>>,
     prob_above_market |-> 0]

Summarize(vals, waccs, betas, market_price) ==
    [mean_value |-> Mean(vals),
     median_value |-> Median(vals),
     ci_95 |-> Ci95(vals),
     mean_wacc |-> Mean(waccs),
     ci_wacc_95 |-> Ci95(waccs),
     mean_beta |-> Mean(betas),
     ci_beta_95 |-> Ci95(betas),
     prob_above_market |-> Mul(Mean(AboveMarket(vals, market_price)), 100 * SCALE)]

(***************************************************************************)
(* The script.                                                             *)
(***************************************************************************)
\* The state a run of the script starts in, for the given widget values.
Start(inp, n) ==
    /\ inputs = inp
    /\ simulations = n
    /\ pc = "validate"
    /\ error = "none"
    /\ i = 0
    /\ y = 0
    /\ draw = NoDraw
    /\ beta_adj = 0
    /\ wacc = 0
    /\ fcf_projection = 0
    /\ total = 0
    /\ spread = 0
    /\ terminal_pv = 0
    /\ values = << >>
    /\ wacc_values = << >>
    /\ beta_values = << >>
    /\ stats = NoStats

NoPrev == [values |-> << >>, wacc_values |-> << >>, beta_values |-> << >>]

Init ==
    /\ \E inp \in InputSet, n \in 1..MaxSimulations : Start(inp, n)
    /\ run = 1
    /\ prev = NoPrev

\* Lines 28-30, then lines 46-51: the loop is entered or skipped.
Validate ==
    /\ pc = "validate"
    /\ pc' = IF inputs.shares <= 0 \/ inputs.revenue <= 0 THEN "rejected"
             ELSE IF LoopDone(0) THEN "analysis" ELSE "sample"
    /\ UNCHANGED <<inputs, simulations, error, i, y, draw, beta_adj, wacc,
                   fcf_projection, total, spread, terminal_pv, values,
                   wacc_values, beta_values, stats, run, prev>>

\* Lines 52-57.
Sample ==
    /\ pc = "sample"
    /\ IF /\ TriangularOk(inputs.margin_min, MarginMode(inputs), inputs.margin_max)
          /\ TriangularOk(30, inputs.term_growth, 45)
       THEN /\ \E d \in DrawSet(inputs) : draw' = d
            /\ pc' = "cost"
            /\ error' = error
       ELSE /\ pc' = "failed"
            /\ error' = "ValueError"
            /\ draw' = draw
    /\ UNCHANGED <<inputs, simulations, i, y, beta_adj, wacc, fcf_projection,
                   total, spread, terminal_pv, values, wacc_values,
                   beta_values, stats, run, prev>>

\* Lines 59-69.  beta_adj is appended (line 61) before the debt ratio is
\* computed (line 62), which divides by 1 + de_ratio.
CostOfCapital ==
    /\ pc = "cost"
    /\ beta_adj' = BetaAdj(inputs, draw.beta_u)
    /\ beta_values' = Append(beta_values, beta_adj')
    /\ IF SCALE + inputs.de_ratio = 0
       THEN /\ pc' = "failed"
            /\ error' = "ZeroDivisionError"
            /\ UNCHANGED <<wacc, wacc_values, fcf_projection, total, y>>
       ELSE /\ wacc' = Wacc(inputs, draw.r_f, draw.er_p, beta_adj')
            /\ wacc_values' = Append(wacc_values, wacc')
            /\ fcf_projection' = FcfAtIterationStart
            /\ total' = 0
            /\ y' = 1
            /\ pc' = "project"
            /\ error' = error
    /\ UNCHANGED <<inputs, simulations, i, draw, spread, terminal_pv, values,
                   stats, run, prev>>

\* Lines 70-72, one year.
ProjectYear ==
    /\ pc = "project"
    /\ y <= inputs.years
    /\ IF inputs.baseline_margin = 0
       THEN /\ pc' = "failed"
            /\ error' = "ZeroDivisionError"
            /\ UNCHANGED <<fcf_projection, total, y>>
       ELSE /\ fcf_projection' =
                   Mul(fcf_projection, GrowthFactor(inputs, draw.g, draw.m))
            /\ IF Pow(SCALE + wacc, y) = 0
               THEN /\ pc' = "failed"
                    /\ error' = "ZeroDivisionError"
                    /\ UNCHANGED <<total, y>>
               ELSE /\ total' = total + Div(fcf_projection', Pow(SCALE + wacc, y))
                    /\ y' = y + 1
                    /\ UNCHANGED <<pc, error>>
    /\ UNCHANGED <<inputs, simulations, i, draw, beta_adj, wacc, spread,
                   terminal_pv, values, wacc_values, beta_values, stats, run,
                   prev>>

\* Lines 74-80, then the loop test of line 51.
Terminal ==
    /\ pc = "project"
    /\ y > inputs.years
    /\ spread' = Spread(wacc, draw.t_growth)
    /\ IF Pow(SCALE + wacc, inputs.years) = 0
       THEN /\ pc' = "failed"
            /\ error' = "ZeroDivisionError"
            /\ UNCHANGED <<terminal_pv, values, i>>
       ELSE /\ terminal_pv' =
                   Div(TerminalValue(fcf_projection, draw.t_growth, spread'),
                       Pow(SCALE + wacc, inputs.years))
            /\ values' = Append(values,
                   IntrinsicVal(EquityVal(total, terminal_pv', inputs.net_cash),
                                inputs.shares))
            /\ i' = i + 1
            /\ pc' = IF LoopDone(i + 1) THEN "analysis" ELSE "sample"
            /\ error' = error
    /\ UNCHANGED <<inputs, simulations, y, draw, beta_adj, wacc,
                   fcf_projection, total, wacc_values, beta_values, stats,
                   run, prev>>

\* Lines 83-90.
Analysis ==
    /\ pc = "analysis"
    /\ stats' = Summarize(values, wacc_values, beta_values, inputs.market_price)
    /\ pc' = "done"
    /\ UNCHANGED <<inputs, simulations, error, i, y, draw, beta_adj, wacc,
                   fcf_projection, total, spread, terminal_pv, values,
                   wacc_values, beta_values, run, prev>>

Next ==
    \/ Validate
    \/ Sample
    \/ CostOfCapital
    \/ ProjectYear
    \/ Terminal
    \/ Analysis

Spec == Init /\ [][Next]_vars


(***************************************************************************)
(* Two executions of the script with the same widget values.  Streamlit    *)
(* executes the script again, top to bottom, on every interaction; the     *)
(* generator behind np.random is neither passed in nor seeded, so the      *)
(* draws of the second execution are as free as those of the first.        *)
(***************************************************************************)
Rerun ==
    /\ pc = "done"
    /\ run < MaxRuns
    /\ run' = run + 1
    /\ prev' = [values |-> values, wacc_values |-> wacc_values,
                beta_values |-> beta_values]
    /\ pc' = "validate"
    /\ error' = "none"
    /\ i' = 0
    /\ y' = 0
    /\ draw' = NoDraw
    /\ beta_adj' = 0
    /\ wacc' = 0
    /\ fcf_projection' = 0
    /\ total' = 0
    /\ spread' = 0
    /\ terminal_pv' = 0
    /\ values' = << >>
    /\ wacc_values' = << >>
    /\ beta_values' = << >>
    /\ stats' = NoStats
    /\ UNCHANGED <<inputs, simulations>>

InitRerun ==
    /\ \E inp \in InputSet : Start(inp, 1)
    /\ run = 1
    /\ prev = NoPrev

NextRerun ==
    \/ Next
    \/ Rerun

SpecRerun == InitRerun /\ [][NextRerun]_vars

(***************************************************************************)
(* The summary statistics on their own: Analysis applied to every ensemble *)
(* of 1..MaxLen entries over a few values, against a few market prices.    *)
(***************************************************************************)
ValueSet == {165399, 540730, 1274556}

WaccSet == {29, 73}

BetaSet == {669, 941}

MarketSet == {165399, 540730}

InitSummary ==
    /\ \E n \in 1..MaxLen :
         /\ values \in [1..n -> ValueSet]
         /\ wacc_values \in [1..n -> WaccSet]
         /\ beta_values \in [1..n -> BetaSet]
         /\ simulations = n
         /\ i = n
    /\ \E mp \in MarketSet : inputs = [Base EXCEPT !.market_price = mp]
    /\ pc = "analysis"
    /\ error = "none"
    /\ y = 0
    /\ draw = NoDraw
    /\ beta_adj = 0
    /\ wacc = 0
    /\ fcf_projection = 0
    /\ total = 0
    /\ spread = 0
    /\ terminal_pv = 0
    /\ stats = NoStats
    /\ run = 1
    /\ prev = NoPrev

NextSummary == Analysis

SpecSummary == InitSummary /\ [][NextSummary]_vars

(***************************************************************************)
(* One iteration as a function of its draws and the inputs alone.          *)
(***************************************************************************)
RECURSIVE FcfAfter(_, _, _)
FcfAfter(inp, d, n) ==
    IF n = 0 THEN inp.initial_fcf
    ELSE Mul(FcfAfter(inp, d, n - 1), GrowthFactor(inp, d.g, d.m))

RECURSIVE PvAfter(_, _, _, _)
PvAfter(inp, d, w, n) ==
    IF n = 0 THEN 0
    ELSE PvAfter(inp, d, w, n - 1) + Div(FcfAfter(inp, d, n), Pow(SCALE + w, n))

ScenarioResult(inp, d) ==
    LET b == BetaAdj(inp, d.beta_u)
        w == Wacc(inp, d.r_f, d.er_p, b)
        sp == Spread(w, d.t_growth)
        tv == TerminalValue(FcfAfter(inp, d, inp.years), d.t_growth, sp)
        tpv == Div(tv, Pow(SCALE + w, inp.years))
    IN  [intrinsic_val |->
             IntrinsicVal(EquityVal(PvAfter(inp, d, w, inp.years), tpv,
                                    inp.net_cash), inp.shares),
         wacc |-> w,
         beta_adj |-> b]

IsPrefix(s, t) == Len(s) <= Len(t) /\ \A k \in 1..Len(s) : s[k] = t[k]

\* The state right after an iteration completed: total, terminal_pv, spread,
\* wacc and draw are that iteration's.
IterationJustCompleted == i >= 1 /\ pc \in {"sample", "analysis", "done"}

(***************************************************************************)
(* Claims.                                                                 *)
(***************************************************************************)

\* C1: if shares <= 0, or revenue <= 0, or initial FCF <= 0, or the horizon
\* is < 1, the run is rejected before the loop: no iteration executes and the
\* three result sequences stay empty.
C1_InvalidInputsRejected ==
    (\/ inputs.shares <= 0
     \/ inputs.revenue <= 0
     \/ inputs.initial_fcf <= 0
     \/ inputs.years < 1)
    => /\ pc \in {"validate", "rejected"}
       /\ values = << >>
       /\ wacc_values = << >>
       /\ beta_values = << >>

\* C2: when the simulation loop has finished, values, wacc_values and
\* beta_values each hold exactly simulations entries.
C2_ExactlyNResults ==
    pc \in {"analysis", "done"}
    => /\ Len(values) = simulations
       /\ Len(wacc_values) = simulations
       /\ Len(beta_values) = simulations

C2_Witness ==
    /\ pc = "done"
    /\ simulations >= 2
    /\ Len(values) = simulations
    /\ Len(wacc_values) = simulations
    /\ Len(beta_values) = simulations

\* C3: the sampling step never fails for inputs that pass validation: the
\* triangular draws always get left <= mode <= right, so no draw raises.
C3_SamplingNeverFails ==
    (inputs.shares > 0 /\ inputs.revenue > 0 /\ inputs.initial_fcf > 0)
    => error # "ValueError"

\* C4: once validation has passed, no arithmetic step of an iteration fails:
\* no division by 1 + de_ratio, baseline_margin, (1 + wacc) ** y, spread or
\* shares is a division by zero.
C4_IterationsTotal ==
    (inputs.shares > 0 /\ inputs.revenue > 0 /\ inputs.initial_fcf > 0)
    => error # "ZeroDivisionError"

\* C5: in every iteration the spread that divides the terminal value is at
\* least 0.005, also when the sampled WACC is at or below the sampled
\* terminal growth.
C5_SpreadFloor == i >= 1 => spread >= 5 /\ spread > 0

C5_Witness ==
    /\ IterationJustCompleted
    /\ wacc <= draw.t_growth
    /\ spread = 5
    /\ Len(values) = i

\* C6: two runs with identical (valid) inputs and identical simulation count
\* produce identical values, wacc_values and beta_values, entry by entry.
C6_SameInputsSameResults ==
    (run = 2 /\ pc = "done" /\ inputs.initial_fcf > 0)
    => /\ values = prev.values
       /\ wacc_values = prev.wacc_values
       /\ beta_values = prev.beta_values

\* C7: with shares > 0 and every draw fixed, the intrinsic value per share
\* of an iteration is non-decreasing in net cash; the value appended is the
\* one for the net cash of the inputs.
C7_MonotoneInNetCash ==
    IterationJustCompleted
    => /\ inputs.shares > 0
       /\ values[i] = IntrinsicVal(EquityVal(total, terminal_pv, inputs.net_cash),
                                   inputs.shares)
       /\ \A nc1 \in NetCashSet \cup {inputs.net_cash} :
            \A nc2 \in NetCashSet \cup {inputs.net_cash} :
               nc1 <= nc2
               => IntrinsicVal(EquityVal(total, terminal_pv, nc1), inputs.shares)
                  <= IntrinsicVal(EquityVal(total, terminal_pv, nc2), inputs.shares)

C7_Witness ==
    /\ IterationJustCompleted
    /\ inputs.net_cash < 0
    /\ IntrinsicVal(EquityVal(total, terminal_pv, inputs.net_cash), inputs.shares)
       < IntrinsicVal(EquityVal(total, terminal_pv, 0), inputs.shares)
    /\ IntrinsicVal(EquityVal(total, terminal_pv, 255220), inputs.shares)
       = IntrinsicVal(EquityVal(total, terminal_pv, 255221), inputs.shares)

\* C8: for intrinsic value, WACC and beta, the 2.5th percentile is at most
\* the median, which is at most the 97.5th percentile.
C8_IntervalBracketsMedian ==
    pc = "done"
    => /\ stats.ci_95[1] <= stats.median_value
       /\ stats.median_value <= stats.ci_95[2]
       /\ stats.ci_wacc_95[1] <= Median(wacc_values)
       /\ Median(wacc_values) <= stats.ci_wacc_95[2]
       /\ stats.ci_beta_95[1] <= Median(beta_values)
       /\ Median(beta_values) <= stats.ci_beta_95[2]

C8_Witness ==
    /\ pc = "done"
    /\ Len(values) >= 3
    /\ stats.ci_95[1] < stats.median_value
    /\ stats.median_value < stats.ci_95[2]
    /\ stats.ci_95[1] > Sorted(values)[1]
    /\ stats.ci_wacc_95[1] < Median(wacc_values)
    /\ Median(beta_values) < stats.ci_beta_95[2]

\* C9: the probability-above-market statistic is 100 times the fraction of
\* entries of values strictly greater than the market price, and lies in
\* [0, 100].
C9_ProbAboveMarket ==
    pc = "done"
    => /\ stats.prob_above_market =
            100 * ((SCALE * Cardinality({k \in 1..Len(values) :
                                           values[k] > inputs.market_price}))
                   \div Len(values))
       /\ stats.prob_above_market >= 0
       /\ stats.prob_above_market <= 100 * SCALE

C9_Witness ==
    /\ pc = "done"
    /\ \E k \in 1..Len(values) : values[k] = inputs.market_price
    /\ \E k \in 1..Len(values) : values[k] > inputs.market_price
    /\ \E k \in 1..Len(values) : values[k] < inputs.market_price
    /\ stats.prob_above_market > 0
    /\ stats.prob_above_market < 100 * SCALE

\* C10: the entry an iteration appends to values, and the entries at the same
\* index of wacc_values and beta_values, are those of that iteration's own
\* draws and the inputs alone; entries already appended never change.
C10_IterationsIndependent ==
    [][LET n == Len(values)
       IN  /\ IsPrefix(values, values')
           /\ IsPrefix(wacc_values, wacc_values')
           /\ IsPrefix(beta_values, beta_values')
           /\ Len(values') \in {n, n + 1}
           /\ Len(values') = n + 1
              => /\ Len(wacc_values') = n + 1
                 /\ Len(beta_values') = n + 1
                 /\ values'[n + 1] = ScenarioResult(inputs, draw).intrinsic_val
                 /\ wacc_values'[n + 1] = ScenarioResult(inputs, draw).wacc
                 /\ beta_values'[n + 1] = ScenarioResult(inputs, draw).beta_adj
      ]_vars

C10_Witness ==
    /\ pc = "done"
    /\ Len(values) >= 2
    /\ values[1] # values[2]
    /\ wacc_values[1] # wacc_values[2]
    /\ beta_values[1] # beta_values[2]
    /\ values[2] = ScenarioResult(inputs, draw).intrinsic_val

====
